---- MODULE Spec2Model ----
(***************************************************************************)
(* Model of dlls/winex11.drv/vulkan.c: the X11 driver's Vulkan entry       *)
(* points.  Three specifications share the module:                         *)
(*   Spec        instance-level entry points (vkCreateInstance with the    *)
(*               create-info conversion, and                               *)
(*               vkEnumerateInstanceExtensionProperties);                  *)
(*   SpecSurface vkCreateWin32SurfaceKHR / vkDestroySurfaceKHR;            *)
(*   SpecDriver  get_vulkan_driver / wine_vk_init called from threads.     *)
(* The entry points of Spec and SpecSurface are modelled for calls made    *)
(* through a function table whose backend pointers are resolved.           *)
(***************************************************************************)
EXTENDS Integers, Sequences, FiniteSets, TLC

\* ------------------------------------------------------------------------
\* Bounds
\* ------------------------------------------------------------------------
MaxExt == 2        \* longest ppEnabledExtensionNames array of a request
MaxChain == 2      \* longest pNext chain of a request
MaxLayers == 1     \* largest enabledLayerCount of a request
MaxBlocks == 2     \* heap blocks that can be live at once
MaxCount == 3      \* largest *count passed to the enumeration
NumThreads == 2    \* threads calling get_vulkan_driver

\* ------------------------------------------------------------------------
\* Values
\* ------------------------------------------------------------------------
NULL == 0

HeapAddrs == 1..MaxBlocks
\* an address that is not a block of the process heap (stack storage, or
\* whatever an uninitialized pointer field happens to hold)
StaleAddr == MaxBlocks + 1

VK_SUCCESS == "VK_SUCCESS"
VK_INCOMPLETE == "VK_INCOMPLETE"
VK_ERROR_OUT_OF_HOST_MEMORY == "VK_ERROR_OUT_OF_HOST_MEMORY"
VK_ERROR_LAYER_NOT_PRESENT == "VK_ERROR_LAYER_NOT_PRESENT"
VK_ERROR_INCOMPATIBLE_DRIVER == "VK_ERROR_INCOMPATIBLE_DRIVER"
VK_ERROR_INITIALIZATION_FAILED == "VK_ERROR_INITIALIZATION_FAILED"

\* results the backend library can hand back from a create call
BackendResults == {VK_SUCCESS, VK_ERROR_INITIALIZATION_FAILED}

\* String memory: address -> contents.  Addresses 1..4 belong to the
\* application (2 and 3 are two distinct copies of the same text), address 5
\* is the driver's own literal "VK_KHR_xlib_surface".
StrAt ==
    <<"VK_KHR_surface", "VK_KHR_win32_surface", "VK_KHR_win32_surface",
      "VK_EXT_other", "VK_KHR_xlib_surface">>

AppStrings == 1..4
XlibSurfaceLiteral == 5

\* strcmp(a, text) == 0 : comparison of contents, not of addresses
StrEq(a, text) == StrAt[a] = text

\* winex11_vk_instance_extensions[], 0-based in the source, 1-based here
winex11_vk_instance_extensions ==
    << [extensionName |-> "VK_KHR_surface", specVersion |-> 1],
       [extensionName |-> "VK_KHR_win32_surface", specVersion |-> 1] >>

ARRAY_SIZE(array) == Len(array)

\* ------------------------------------------------------------------------
\* State
\* ------------------------------------------------------------------------
VARIABLES
    pc,                 \* position of the single-threaded caller
    args,               \* arguments of the entry point being executed
    create_info_host,   \* X11DRV_vkCreateInstance's local VkInstanceCreateInfo
    heap,               \* process heap: block address -> block
    res,                \* the VkResult local / value returned
    trace,              \* what the current call did, in order
    count,              \* caller's uint32_t *count
    properties,         \* caller's VkExtensionProperties buffer
    surface,            \* caller's VkSurfaceKHR *surface storage
    windows,            \* client windows created so far
    natives,            \* native surfaces alive in the backend
    handles,            \* surface handles the application holds
    init_done,          \* wine_vk_init: static BOOL init_done
    vulkan_handle,      \* wine_vk_init: static void *vulkan_handle
    pvk,                \* the seven backend function pointers
    lib,                \* environment: what dlopen / dlsym can resolve
    tpc,                \* per thread: position inside get_vulkan_driver
    tver,               \* per thread: version argument of the call
    tk,                 \* per thread: index of the symbol being resolved
    tloaded,            \* per thread: has it run the library loading code
    tret                \* per thread: value returned by its last call

vars == <<pc, args, create_info_host, heap, res, trace, count, properties,
          surface, windows, natives, handles, init_done, vulkan_handle,
          pvk, lib, tpc, tver, tk, tloaded, tret>>

instVars == <<pc, args, create_info_host, heap, res, trace, count, properties>>
surfVars == <<surface, windows, natives, handles>>
drvVars == <<init_done, vulkan_handle, pvk, lib, tpc, tver, tk, tloaded, tret>>

\* ------------------------------------------------------------------------
\* Heap
\* ------------------------------------------------------------------------
EmptyBlock == [live |-> FALSE, names |-> <<>>, window |-> 0, surface |-> 0]

\* heap_alloc: the address of a block that is not live, or NULL when the
\* allocation fails (ok = FALSE, or no block left)
heap_alloc(h, ok) ==
    IF ok /\ \E b \in HeapAddrs : ~h[b].live
    THEN CHOOSE b \in HeapAddrs :
            /\ ~h[b].live
            /\ \A c \in HeapAddrs : ~h[c].live => b <= c
    ELSE NULL

\* the heap after a successful heap_alloc returned block b
Allocated(h, b) == [h EXCEPT ![b] = [EmptyBlock EXCEPT !.live = TRUE]]

\* heap_free(p): releases the block when p is a live block; any other
\* pointer is an invalid free and leaves the model heap as it is (the trace
\* records every pointer handed to heap_free)
heap_free(h, p) ==
    IF p \in HeapAddrs /\ h[p].live THEN [h EXCEPT ![p] = EmptyBlock] ELSE h

Ev(name, arg) == [ev |-> name, arg |-> arg]

\* pointers handed to heap_free during the current call
Frees(t) == SelectSeq(t, LAMBDA e : e.ev = "heap_free")
Allocs(t) == SelectSeq(t, LAMBDA e : e.ev = "heap_alloc")
EventCount(t, name) == Len(SelectSeq(t, LAMBDA e : e.ev = name))

\* ------------------------------------------------------------------------
\* wine_vk_instance_convert_create_info
\* ------------------------------------------------------------------------

\* variant: the name is recognised by its address instead of its contents
SubstituteExtension_ByAddress(name) ==
    IF name = 2 THEN XlibSurfaceLiteral ELSE name

\* Substitute extension with X11 else copy (the body of the for loop)
SubstituteExtension(name) ==
    IF StrEq(name, "VK_KHR_win32_surface") THEN XlibSurfaceLiteral ELSE name

\* for (i = 0; i < src->enabledExtensionCount; i++) enabled_extensions[i] = ...
\* i is the 0-based loop counter, arr the array filled so far
RECURSIVE ConvertLoop(_, _, _, _)
ConvertLoop(names, n, i, arr) ==
    IF i < n
    THEN ConvertLoop(names, n, i + 1,
                     [arr EXCEPT ![i + 1] = SubstituteExtension(names[i + 1])])
    ELSE arr

\* for (header = src->pNext; header; header = header->pNext) FIXME(...)
RECURSIVE WalkChain(_, _)
WalkChain(chain, t) ==
    IF chain # <<>>
    THEN WalkChain(Tail(chain), Append(t, Ev("FIXME_chain", Head(chain))))
    ELSE t

\* variant: the application's chain is forwarded
ConvertedChain_Forwarded(src) == src.pNext

\* dst->pNext = NULL;
ConvertedChain(src) == <<>>

\* dst->enabledLayerCount = 0; dst->ppEnabledLayerNames = NULL;
ConvertedLayers(src) == [enabledLayerCount |-> 0, ppEnabledLayerNames |-> NULL]

\* The whole helper.  dst is the caller's record as it was on entry, h the
\* heap, ok whether heap_alloc can succeed, t the trace so far.
wine_vk_instance_convert_create_info(src, dst, h, ok, t) ==
    LET d1 == [dst EXCEPT !.sType = src.sType,
                          !.flags = src.flags,
                          !.pApplicationInfo = src.pApplicationInfo,
                          !.pNext = ConvertedChain(src),
                          !.enabledLayerCount = ConvertedLayers(src).enabledLayerCount,
                          !.ppEnabledLayerNames = ConvertedLayers(src).ppEnabledLayerNames]
        t1 == WalkChain(src.pNext, t)
        n == src.enabledExtensionCount
    IN  IF n > 0
        THEN LET enabled_extensions == heap_alloc(h, ok)
                 t2 == Append(t1, Ev("heap_alloc", enabled_extensions))
             IN  IF enabled_extensions = NULL
                 THEN [res |-> VK_ERROR_OUT_OF_HOST_MEMORY, dst |-> d1,
                       heap |-> h, trace |-> Append(t2, Ev("ERR", 0))]
                 ELSE LET arr == ConvertLoop(src.ppEnabledExtensionNames, n, 0,
                                             [k \in 1..n |-> NULL])
                          h2 == [Allocated(h, enabled_extensions)
                                    EXCEPT ![enabled_extensions].names = arr]
                      IN  [res |-> VK_SUCCESS,
                           dst |-> [d1 EXCEPT
                                      !.ppEnabledExtensionNames = enabled_extensions,
                                      !.enabledExtensionCount = n],
                           heap |-> h2, trace |-> t2]
        ELSE [res |-> VK_SUCCESS,
              dst |-> [d1 EXCEPT !.enabledExtensionCount = n],
              heap |-> h, trace |-> t1]

\* ------------------------------------------------------------------------
\* Requests and uninitialized storage
\* ------------------------------------------------------------------------
SeqsUpTo(S, n) == UNION {[1..k -> S] : k \in 0..n}

\* sType values a chained structure can carry (two of the extension types)
ChainTypes == {11, 1000011000}

\* VkInstanceCreateInfo records an application can pass
CreateInfos ==
    {[sType |-> 1, flags |-> 0, pApplicationInfo |-> StaleAddr,
      pNext |-> ch,
      enabledLayerCount |-> nl,
      ppEnabledLayerNames |-> [k \in 1..nl |-> 4],
      enabledExtensionCount |-> Len(ex),
      ppEnabledExtensionNames |-> ex] :
        ch \in SeqsUpTo(ChainTypes, MaxChain),
        nl \in 0..MaxLayers,
        ex \in SeqsUpTo(AppStrings, MaxExt)}

\* What the uninitialized local create_info_host can hold on entry: the
\* scalar and chain/layer fields all zero or all non-zero, and any pointer
\* value in ppEnabledExtensionNames.
UninitCreateInfo ==
    {[sType |-> g, flags |-> g, pApplicationInfo |-> g * StaleAddr,
      pNext |-> IF g = 0 THEN <<>> ELSE <<g>>,
      enabledLayerCount |-> g,
      ppEnabledLayerNames |-> g * StaleAddr,
      enabledExtensionCount |-> g,
      ppEnabledExtensionNames |-> p] :
        g \in {0, 1}, p \in {NULL, StaleAddr} \cup HeapAddrs}

NoArgs == [op |-> "none"]

ZeroCreateInfo ==
    [sType |-> 0, flags |-> 0, pApplicationInfo |-> NULL, pNext |-> <<>>,
     enabledLayerCount |-> 0, ppEnabledLayerNames |-> NULL,
     enabledExtensionCount |-> 0, ppEnabledExtensionNames |-> NULL]

\* caller's properties buffer: MaxCount + 1 slots, so that a write past the
\* announced capacity is visible
Unwritten == [extensionName |-> "", specVersion |-> 0]
BufLen == MaxCount + 1
EmptyBuffer == [k \in 1..BufLen |-> Unwritten]

\* ------------------------------------------------------------------------
\* X11DRV_vkCreateInstance
\* ------------------------------------------------------------------------

\* variant: the helper's result is not looked at
ConvertFailed_Ignored(r) == FALSE

\* if (res != VK_SUCCESS) { ERR(...); return res; }
ConvertFailed(r) == r # VK_SUCCESS

\* variant: the array is never released
ShouldFree_Never(p) == FALSE

\* if (create_info_host.ppEnabledExtensionNames) heap_free(...)
ShouldFree(p) == p # NULL

\* entry: the local create_info_host is uninitialized; a non-null allocator
\* is only reported
CreateInstance ==
    /\ pc = "idle"
    /\ \E ci \in CreateInfos, allocator \in {NULL, StaleAddr},
          u \in UninitCreateInfo :
        /\ args' = [op |-> "vkCreateInstance", create_info |-> ci,
                    allocator |-> allocator]
        /\ create_info_host' = u
        /\ trace' = IF allocator # NULL THEN <<Ev("FIXME_allocator", 0)>>
                    ELSE <<>>
    /\ pc' = "ci_convert"
    /\ UNCHANGED <<heap, res, count, properties>>
    /\ UNCHANGED <<surfVars, drvVars>>

\* res = wine_vk_instance_convert_create_info(create_info, &create_info_host);
\* if (res != VK_SUCCESS) return res;
CI_Convert ==
    /\ pc = "ci_convert"
    /\ \E ok \in BOOLEAN :
        LET r == wine_vk_instance_convert_create_info(
                     args.create_info, create_info_host, heap, ok, trace)
        IN  /\ create_info_host' = r.dst
            /\ heap' = r.heap
            /\ res' = r.res
            /\ trace' = Append(r.trace, Ev("convert_returned", r.res))
            /\ pc' = IF ConvertFailed(r.res) THEN "returned" ELSE "ci_call"
    /\ UNCHANGED <<args, count, properties>>
    /\ UNCHANGED <<surfVars, drvVars>>

\* res = pvkCreateInstance(&create_info_host, NULL, instance): control
\* enters the backend, which reads the converted record
CI_CallBackend ==
    /\ pc = "ci_call"
    /\ pc' = "ci_in_backend"
    /\ trace' = Append(trace, Ev("pvkCreateInstance", 0))
    /\ UNCHANGED <<args, create_info_host, heap, res, count, properties>>
    /\ UNCHANGED <<surfVars, drvVars>>

\* the backend returns its result
CI_BackendReturn ==
    /\ pc = "ci_in_backend"
    /\ \E r \in BackendResults :
        /\ res' = r
        /\ trace' = Append(trace, Ev("pvkCreateInstance_returned", r))
    /\ pc' = "ci_free"
    /\ UNCHANGED <<args, create_info_host, heap, count, properties>>
    /\ UNCHANGED <<surfVars, drvVars>>

\* if (create_info_host.ppEnabledExtensionNames) heap_free(...); return res;
CI_Free ==
    /\ pc = "ci_free"
    /\ IF ShouldFree(create_info_host.ppEnabledExtensionNames)
       THEN /\ heap' = heap_free(heap, create_info_host.ppEnabledExtensionNames)
            /\ trace' = Append(trace,
                   Ev("heap_free", create_info_host.ppEnabledExtensionNames))
       ELSE UNCHANGED <<heap, trace>>
    /\ pc' = "returned"
    /\ UNCHANGED <<args, create_info_host, res, count, properties>>
    /\ UNCHANGED <<surfVars, drvVars>>

\* ------------------------------------------------------------------------
\* X11DRV_vkEnumerateInstanceExtensionProperties
\* ------------------------------------------------------------------------

\* variant: the whole table is copied whatever the capacity
NumCopies_Full(c) == ARRAY_SIZE(winex11_vk_instance_extensions)

\* num_copies chosen from the caller's capacity
NumCopies(c) ==
    IF c < ARRAY_SIZE(winex11_vk_instance_extensions)
    THEN c
    ELSE ARRAY_SIZE(winex11_vk_instance_extensions)

\* the result that goes with it
EnumResult(c) ==
    IF c < ARRAY_SIZE(winex11_vk_instance_extensions)
    THEN VK_INCOMPLETE
    ELSE VK_SUCCESS

\* for (i = 0; i < num_copies; i++) memcpy(&properties[i], &table[i], ...)
RECURSIVE CopyLoop(_, _, _)
CopyLoop(buf, i, num_copies) ==
    IF i < num_copies
    THEN CopyLoop([buf EXCEPT ![i + 1] = winex11_vk_instance_extensions[i + 1]],
                  i + 1, num_copies)
    ELSE buf

EnumerateInstanceExtensionProperties ==
    /\ pc = "idle"
    /\ \E layer_name \in {NULL, StaleAddr}, c \in 0..MaxCount,
          props \in {NULL, StaleAddr} :
        /\ args' = [op |-> "vkEnumerateInstanceExtensionProperties",
                    layer_name |-> layer_name, count |-> c,
                    properties |-> props]
        /\ IF layer_name # NULL
           THEN /\ res' = VK_ERROR_LAYER_NOT_PRESENT
                /\ count' = c
                /\ properties' = EmptyBuffer
                /\ trace' = <<Ev("ERR", 0)>>
           ELSE IF props = NULL
           THEN /\ res' = VK_SUCCESS
                /\ count' = ARRAY_SIZE(winex11_vk_instance_extensions)
                /\ properties' = EmptyBuffer
                /\ trace' = <<>>
           ELSE /\ res' = EnumResult(c)
                /\ count' = c
                /\ properties' = CopyLoop(EmptyBuffer, 0, NumCopies(c))
                /\ trace' = <<>>
    /\ pc' = "returned"
    /\ UNCHANGED <<create_info_host, heap>>
    /\ UNCHANGED <<surfVars, drvVars>>

\* the caller has looked at the outcome and is ready for its next call
Return ==
    /\ pc = "returned"
    /\ pc' = "idle"
    /\ args' = NoArgs
    /\ create_info_host' = ZeroCreateInfo
    /\ res' = VK_SUCCESS
    /\ trace' = <<>>
    /\ count' = 0
    /\ properties' = EmptyBuffer
    /\ UNCHANGED heap
    /\ UNCHANGED <<surfVars, drvVars>>

\* ------------------------------------------------------------------------
\* X11DRV_vkCreateWin32SurfaceKHR / X11DRV_vkDestroySurfaceKHR
\* ------------------------------------------------------------------------
GetDesktopWindow == "desktop"

\* windows of the application: two top-level windows and a child of the first
Hwnds == {"top1", "top2", "child"}

\* GetAncestor(hwnd, GA_PARENT)
GetAncestor(hwnd) == IF hwnd = "child" THEN "top1" ELSE GetDesktopWindow

\* the X11 client window create_client_window makes for a top-level hwnd
\* (0 when it fails)
create_client_window(hwnd, ok) ==
    IF ~ok THEN 0 ELSE IF hwnd = "top1" THEN 1 ELSE 2

\* variant: the parent is not looked at
IsChildWindow_Unchecked(hwnd) == FALSE

\* Don't deal with child window rendering just yet.
IsChildWindow(hwnd) == GetAncestor(hwnd) # GetDesktopWindow

\* the pointer handed to heap_free when pvkCreateXlibSurfaceKHR failed:
\* `surface`, the caller's output argument
FreedOnBackendFailure(surface_ptr, x11_surface) == surface_ptr

\* pvkCreateXlibSurfaceKHR: the native handle it stores on success, a handle
\* not in use (0 when it fails: nothing is stored)
NativeSurface(ns, r) ==
    IF r = VK_SUCCESS /\ \E s \in 1..MaxBlocks : s \notin ns
    THEN CHOOSE s \in 1..MaxBlocks :
            s \notin ns /\ \A u \in 1..MaxBlocks : u \notin ns => s <= u
    ELSE 0

\* One call.  surface_ptr is the address of the caller's VkSurfaceKHR, which
\* lives outside the heap; the variable `surface` is what that storage holds.
CreateWin32SurfaceKHR ==
    /\ pc = "idle"
    /\ \E hwnd \in Hwnds, allocator \in {NULL, StaleAddr},
          winOk \in BOOLEAN, allocOk \in BOOLEAN, r \in BackendResults :
        LET t0 == IF allocator # NULL THEN <<Ev("FIXME_allocator", 0)>> ELSE <<>>
            win == create_client_window(hwnd, winOk)
            x11_surface == heap_alloc(heap, allocOk)
            native == NativeSurface(natives, r)
            bres == IF native = 0 /\ r = VK_SUCCESS
                    THEN VK_ERROR_OUT_OF_HOST_MEMORY ELSE r
            t1 == Append(t0, Ev("create_client_window", win))
            t2 == Append(t1, Ev("heap_alloc", x11_surface))
            t3 == Append(t2, Ev("pvkCreateXlibSurfaceKHR", win))
            h1 == [Allocated(heap, x11_surface) EXCEPT ![x11_surface].window = win]
        IN  /\ args' = [op |-> "vkCreateWin32SurfaceKHR", hwnd |-> hwnd,
                        allocator |-> allocator, surface_ptr |-> StaleAddr,
                        surface_before |-> surface]
            /\ IF IsChildWindow(hwnd)
               THEN /\ res' = VK_ERROR_INCOMPATIBLE_DRIVER
                    /\ trace' = Append(t0, Ev("FIXME_child", 0))
                    /\ UNCHANGED <<heap, surface, windows, natives, handles>>
               ELSE IF win = 0
               THEN /\ res' = VK_ERROR_OUT_OF_HOST_MEMORY
                    /\ trace' = t1
                    /\ UNCHANGED <<heap, surface, windows, natives, handles>>
               ELSE IF x11_surface = NULL
               THEN /\ res' = VK_ERROR_OUT_OF_HOST_MEMORY
                    /\ trace' = t2
                    /\ windows' = windows \cup {win}
                    /\ UNCHANGED <<heap, surface, natives, handles>>
               ELSE IF bres # VK_SUCCESS
               THEN LET p == FreedOnBackendFailure(StaleAddr, x11_surface)
                    IN  /\ res' = bres
                        /\ trace' = Append(t3, Ev("heap_free", p))
                        /\ heap' = heap_free(h1, p)
                        /\ windows' = windows \cup {win}
                        /\ UNCHANGED <<surface, natives, handles>>
               ELSE /\ res' = VK_SUCCESS
                    /\ trace' = Append(t3, Ev("write_surface", x11_surface))
                    /\ heap' = [h1 EXCEPT ![x11_surface].surface = native]
                    /\ windows' = windows \cup {win}
                    /\ natives' = natives \cup {native}
                    /\ surface' = x11_surface
                    /\ handles' = handles \cup {x11_surface}
    /\ pc' = "returned"
    /\ UNCHANGED <<create_info_host, count, properties>>
    /\ UNCHANGED drvVars

\* the application destroys a surface it holds
DestroySurfaceKHR ==
    /\ pc = "idle"
    /\ \E h \in handles, allocator \in {NULL, StaleAddr} :
        LET x11_surface == h
            t0 == IF allocator # NULL THEN <<Ev("FIXME_allocator", 0)>> ELSE <<>>
        IN  /\ args' = [op |-> "vkDestroySurfaceKHR", surface |-> h,
                        allocator |-> allocator,
                        native |-> heap[x11_surface].surface]
            /\ trace' = t0 \o <<Ev("pvkDestroySurfaceKHR", heap[x11_surface].surface),
                                Ev("heap_free", x11_surface)>>
            /\ natives' = natives \ {heap[x11_surface].surface}
            /\ heap' = heap_free(heap, x11_surface)
            /\ handles' = handles \ {h}
    /\ pc' = "returned"
    /\ UNCHANGED <<create_info_host, res, count, properties, surface, windows>>
    /\ UNCHANGED drvVars

NextSurface ==
    \/ CreateWin32SurfaceKHR
    \/ DestroySurfaceKHR
    \/ Return

\* ------------------------------------------------------------------------
\* get_vulkan_driver / wine_vk_init
\* ------------------------------------------------------------------------
WINE_VULKAN_DRIVER_VERSION == 1

\* LOAD_FUNCPTR is used seven times
NumSymbols == 7

Threads == 1..NumThreads

CompleteLibrary == [open |-> TRUE, syms |-> 1..NumSymbols]

\* what the host can offer: no library, the complete library, or a library
\* that lacks one of the symbols
Libraries ==
    {[open |-> FALSE, syms |-> {}], CompleteLibrary}
        \cup {[open |-> TRUE, syms |-> (1..NumSymbols) \ {k}] : k \in 1..NumSymbols}

\* wine_dlopen(SONAME_LIBVULKAN, ...): a non-null handle or NULL
wine_dlopen(l) == IF l.open THEN StaleAddr ELSE NULL

\* wine_dlsym(vulkan_handle, #f, ...): the address of symbol k or NULL
wine_dlsym(l, k) == IF k \in l.syms THEN k ELSE NULL

\* if (init_done) return (vulkan_handle != NULL);
InitResult(h) == h # NULL

\* get_vulkan_driver(version): the version check
GetVulkanDriver(t) ==
    /\ tpc[t] = "idle"
    /\ \E version \in {WINE_VULKAN_DRIVER_VERSION, WINE_VULKAN_DRIVER_VERSION + 1} :
        /\ tver' = [tver EXCEPT ![t] = version]
        /\ IF version # WINE_VULKAN_DRIVER_VERSION
           THEN /\ tret' = [tret EXCEPT ![t] = "NULL"]
                /\ tpc' = tpc
           ELSE /\ tret' = [tret EXCEPT ![t] = "pending"]
                /\ tpc' = [tpc EXCEPT ![t] = "check_init"]
    /\ UNCHANGED <<init_done, vulkan_handle, pvk, lib, tk, tloaded>>
    /\ UNCHANGED <<instVars, surfVars>>

\* wine_vk_init: if (init_done) ...
VkInit_CheckDone(t) ==
    /\ tpc[t] = "check_init"
    /\ tpc' = [tpc EXCEPT ![t] = IF init_done THEN "read_handle" ELSE "set_done"]
    /\ UNCHANGED <<init_done, vulkan_handle, pvk, lib, tver, tk, tloaded, tret>>
    /\ UNCHANGED <<instVars, surfVars>>

\* ... return (vulkan_handle != NULL); and get_vulkan_driver's return
VkInit_ReturnCached(t) ==
    /\ tpc[t] = "read_handle"
    /\ tret' = [tret EXCEPT ![t] =
                  IF InitResult(vulkan_handle) THEN "vulkan_funcs" ELSE "NULL"]
    /\ tpc' = [tpc EXCEPT ![t] = "idle"]
    /\ UNCHANGED <<init_done, vulkan_handle, pvk, lib, tver, tk, tloaded>>
    /\ UNCHANGED <<instVars, surfVars>>

\* init_done = TRUE;
VkInit_SetDone(t) ==
    /\ tpc[t] = "set_done"
    /\ init_done' = TRUE
    /\ tpc' = [tpc EXCEPT ![t] = "dlopen"]
    /\ UNCHANGED <<vulkan_handle, pvk, lib, tver, tk, tloaded, tret>>
    /\ UNCHANGED <<instVars, surfVars>>

\* if (!(vulkan_handle = wine_dlopen(...))) return FALSE;
VkInit_Dlopen(t) ==
    /\ tpc[t] = "dlopen"
    /\ vulkan_handle' = wine_dlopen(lib)
    /\ tloaded' = [tloaded EXCEPT ![t] = TRUE]
    /\ IF wine_dlopen(lib) = NULL
       THEN /\ tret' = [tret EXCEPT ![t] = "NULL"]
            /\ tpc' = [tpc EXCEPT ![t] = "idle"]
            /\ tk' = tk
       ELSE /\ tpc' = [tpc EXCEPT ![t] = "sym"]
            /\ tk' = [tk EXCEPT ![t] = 1]
            /\ tret' = tret
    /\ UNCHANGED <<init_done, pvk, lib, tver>>
    /\ UNCHANGED <<instVars, surfVars>>

\* LOAD_FUNCPTR(f): if ((pf = wine_dlsym(...)) == NULL) return FALSE;
\* after the seventh, return TRUE
VkInit_LoadFuncptr(t) ==
    /\ tpc[t] = "sym"
    /\ pvk' = [pvk EXCEPT ![tk[t]] = wine_dlsym(lib, tk[t])]
    /\ IF wine_dlsym(lib, tk[t]) = NULL
       THEN /\ tret' = [tret EXCEPT ![t] = "NULL"]
            /\ tpc' = [tpc EXCEPT ![t] = "idle"]
            /\ tk' = [tk EXCEPT ![t] = 0]
       ELSE IF tk[t] = NumSymbols
       THEN /\ tret' = [tret EXCEPT ![t] = "vulkan_funcs"]
            /\ tpc' = [tpc EXCEPT ![t] = "idle"]
            /\ tk' = [tk EXCEPT ![t] = 0]
       ELSE /\ tk' = [tk EXCEPT ![t] = tk[t] + 1]
            /\ UNCHANGED <<tret, tpc>>
    /\ UNCHANGED <<init_done, vulkan_handle, lib, tver, tloaded>>
    /\ UNCHANGED <<instVars, surfVars>>

\* ------------------------------------------------------------------------
\* Initial state and the instance-level specification
\* ------------------------------------------------------------------------
\* no entry point is executing, nothing is allocated
InitEntryPoints ==
    /\ pc = "idle"
    /\ args = NoArgs
    /\ create_info_host = ZeroCreateInfo
    /\ heap = [b \in HeapAddrs |-> EmptyBlock]
    /\ res = VK_SUCCESS
    /\ trace = <<>>
    /\ count = 0
    /\ properties = EmptyBuffer
    /\ surface = 0
    /\ windows = {}
    /\ natives = {}
    /\ handles = {}

\* the entry points are reached through the table get_vulkan_driver handed
\* out: thread 1 has loaded the complete library
Init ==
    /\ InitEntryPoints
    /\ init_done = TRUE
    /\ vulkan_handle = wine_dlopen(CompleteLibrary)
    /\ pvk = [k \in 1..NumSymbols |-> wine_dlsym(CompleteLibrary, k)]
    /\ lib = CompleteLibrary
    /\ tpc = [t \in Threads |-> "idle"]
    /\ tver = [t \in Threads |-> WINE_VULKAN_DRIVER_VERSION]
    /\ tk = [t \in Threads |-> 0]
    /\ tloaded = [t \in Threads |-> t = 1]
    /\ tret = [t \in Threads |-> IF t = 1 THEN "vulkan_funcs" ELSE "none"]

Next ==
    \/ CreateInstance
    \/ CI_Convert
    \/ CI_CallBackend
    \/ CI_BackendReturn
    \/ CI_Free
    \/ EnumerateInstanceExtensionProperties
    \/ Return

Spec == Init /\ [][Next]_vars

\* surface entry points, one call at a time
SpecSurface == Init /\ [][NextSurface]_vars

\* the process starts on a host with any of the libraries
InitDriver ==
    /\ InitEntryPoints
    /\ init_done = FALSE
    /\ vulkan_handle = NULL
    /\ pvk = [k \in 1..NumSymbols |-> NULL]
    /\ lib \in Libraries
    /\ tpc = [t \in Threads |-> "idle"]
    /\ tver = [t \in Threads |-> WINE_VULKAN_DRIVER_VERSION]
    /\ tk = [t \in Threads |-> 0]
    /\ tloaded = [t \in Threads |-> FALSE]
    /\ tret = [t \in Threads |-> "none"]

\* threads call get_vulkan_driver with no synchronization between them
NextDriver ==
    \E t \in Threads :
        \/ GetVulkanDriver(t)
        \/ VkInit_CheckDone(t)
        \/ VkInit_ReturnCached(t)
        \/ VkInit_SetDone(t)
        \/ VkInit_Dlopen(t)
        \/ VkInit_LoadFuncptr(t)

SpecDriver == InitDriver /\ [][NextDriver]_vars

\* a call starts only when no other call is in progress
GetVulkanDriverAlone(t) ==
    /\ \A u \in Threads : tpc[u] = "idle"
    /\ GetVulkanDriver(t)

NextDriverSeq ==
    \E t \in Threads :
        \/ GetVulkanDriverAlone(t)
        \/ VkInit_CheckDone(t)
        \/ VkInit_ReturnCached(t)
        \/ VkInit_SetDone(t)
        \/ VkInit_Dlopen(t)
        \/ VkInit_LoadFuncptr(t)

SpecDriverSeq == InitDriver /\ [][NextDriverSeq]_vars

\* ------------------------------------------------------------------------
\* Properties of the instance-level entry points (Spec)
\* ------------------------------------------------------------------------
InCreateInstance == args.op = "vkCreateInstance"

\* the conversion helper has returned to X11DRV_vkCreateInstance
Converted == InCreateInstance /\ pc # "ci_convert"

ConvertReturns == SelectSeq(trace, LAMBDA e : e.ev = "convert_returned")
ConvertResult == ConvertReturns[1].arg

AllocFailed == Allocs(trace) # <<>> /\ Allocs(trace)[1].arg = NULL
AllocSucceeded == Allocs(trace) # <<>> /\ Allocs(trace)[1].arg # NULL

SrcNames == args.create_info.ppEnabledExtensionNames
SrcCount == args.create_info.enabledExtensionCount

\* the converted array, readable while its block is live
HostNames == heap[create_info_host.ppEnabledExtensionNames].names

\* C1: with n >= 1 names and a successful allocation the conversion returns
\* success, the output count is n, and output name i is "VK_KHR_xlib_surface"
\* where input name i reads "VK_KHR_win32_surface" and is the very same
\* pointer as input name i everywhere else; nothing is filtered, reordered or
\* deduplicated.
C1_Substitution ==
    (Converted /\ SrcCount >= 1 /\ AllocSucceeded) =>
        /\ ConvertResult = VK_SUCCESS
        /\ create_info_host.enabledExtensionCount = SrcCount
        /\ pc \in {"ci_call", "ci_in_backend"} =>
            /\ create_info_host.ppEnabledExtensionNames \in HeapAddrs
            /\ DOMAIN HostNames = 1..SrcCount
            /\ \A i \in 1..SrcCount :
                IF StrAt[SrcNames[i]] = "VK_KHR_win32_surface"
                THEN StrAt[HostNames[i]] = "VK_KHR_xlib_surface"
                ELSE HostNames[i] = SrcNames[i]

\* a request naming the second copy of the win32 name, then another name
C1_Witness ==
    /\ pc = "ci_call"
    /\ InCreateInstance
    /\ SrcNames = <<3, 1>>
    /\ HostNames = <<XlibSurfaceLiteral, 1>>

\* C2: with enabledExtensionCount == 0, whatever the output record held
\* before, the conversion succeeds, the output count is 0, the output's
\* extension-name field refers to no array, and X11DRV_vkCreateInstance hands
\* nothing to heap_free.
C2_ZeroExtensions ==
    (Converted /\ SrcCount = 0) =>
        /\ ConvertResult = VK_SUCCESS
        /\ create_info_host.enabledExtensionCount = 0
        /\ create_info_host.ppEnabledExtensionNames = NULL
        /\ Frees(trace) = <<>>

\* C3: when the array allocation fails for a request with n > 0, the helper
\* returns VK_ERROR_OUT_OF_HOST_MEMORY with no block allocated, and
\* X11DRV_vkCreateInstance returns that error without calling the backend and
\* without freeing anything.
C3_AllocationFailure ==
    (Converted /\ SrcCount > 0 /\ AllocFailed) =>
        /\ ConvertResult = VK_ERROR_OUT_OF_HOST_MEMORY
        /\ pc = "returned"
        /\ res = VK_ERROR_OUT_OF_HOST_MEMORY
        /\ \A b \in HeapAddrs : ~heap[b].live
        /\ EventCount(trace, "pvkCreateInstance") = 0
        /\ Frees(trace) = <<>>

C3_Witness ==
    /\ pc = "returned"
    /\ InCreateInstance
    /\ SrcCount > 0
    /\ AllocFailed
    /\ res = VK_ERROR_OUT_OF_HOST_MEMORY

\* C6: whatever the pNext chain and the layer list of the request, the
\* converted record has a null chain, enabledLayerCount 0 and a null layer
\* list; every chain node is logged once and the helper fails only when the
\* extension array could not be allocated.
C6_ChainAndLayersDropped ==
    Converted =>
        /\ create_info_host.pNext = <<>>
        /\ create_info_host.enabledLayerCount = 0
        /\ create_info_host.ppEnabledLayerNames = NULL
        /\ EventCount(trace, "FIXME_chain") = Len(args.create_info.pNext)
        /\ ConvertResult \in {VK_SUCCESS, VK_ERROR_OUT_OF_HOST_MEMORY}
        /\ ConvertResult # VK_SUCCESS => (SrcCount > 0 /\ AllocFailed)

C6_Witness ==
    /\ pc = "ci_call"
    /\ InCreateInstance
    /\ Len(args.create_info.pNext) >= 2
    /\ args.create_info.enabledLayerCount >= 1
    /\ ConvertResult = VK_SUCCESS
    /\ create_info_host.pNext = <<>>

\* C7: when the conversion allocated an array (n > 0), the array stays
\* allocated until the backend vkCreateInstance has returned, is then freed
\* exactly once whatever the backend returned, and the backend's result is
\* what the caller gets.
C7_FreedAfterBackend ==
    (Converted /\ SrcCount > 0 /\ ConvertResult = VK_SUCCESS) =>
        LET blk == create_info_host.ppEnabledExtensionNames
            n == Len(trace)
        IN  /\ blk \in HeapAddrs
            /\ pc \in {"ci_call", "ci_in_backend", "ci_free"} =>
                  (heap[blk].live /\ Frees(trace) = <<>>)
            /\ pc = "returned" =>
                /\ Frees(trace) = <<Ev("heap_free", blk)>>
                /\ trace[n] = Ev("heap_free", blk)
                /\ trace[n - 1].ev = "pvkCreateInstance_returned"
                /\ res = trace[n - 1].arg
                /\ ~heap[blk].live

C7_Witness ==
    /\ pc = "returned"
    /\ InCreateInstance
    /\ SrcCount > 0
    /\ res = VK_ERROR_INITIALIZATION_FAILED
    /\ Len(Frees(trace)) = 1
    /\ \A b \in HeapAddrs : ~heap[b].live

InEnumerate == args.op = "vkEnumerateInstanceExtensionProperties"

\* C10: with a null layer name and a buffer of capacity c the enumeration
\* writes the first min(c, 2) entries of [VK_KHR_surface,
\* VK_KHR_win32_surface] and nothing else, returning VK_INCOMPLETE exactly
\* when c < 2; with a null buffer it writes nothing and sets *count to 2;
\* with a layer name it returns VK_ERROR_LAYER_NOT_PRESENT and touches
\* neither *count nor the buffer.
C10_Enumerate ==
    (pc = "returned" /\ InEnumerate) =>
        LET c == args.count
            m == IF c < 2 THEN c ELSE 2
            table == << [extensionName |-> "VK_KHR_surface", specVersion |-> 1],
                        [extensionName |-> "VK_KHR_win32_surface", specVersion |-> 1] >>
        IN  IF args.layer_name # NULL
            THEN /\ res = VK_ERROR_LAYER_NOT_PRESENT
                 /\ count = c
                 /\ properties = EmptyBuffer
            ELSE IF args.properties = NULL
            THEN /\ res = VK_SUCCESS
                 /\ count = 2
                 /\ properties = EmptyBuffer
            ELSE /\ res = (IF c < 2 THEN VK_INCOMPLETE ELSE VK_SUCCESS)
                 /\ \A k \in 1..BufLen :
                      properties[k] = IF k <= m THEN table[k] ELSE Unwritten

C10_Witness ==
    /\ pc = "returned"
    /\ InEnumerate
    /\ args.layer_name = NULL
    /\ args.properties # NULL
    /\ args.count = 1
    /\ res = VK_INCOMPLETE
    /\ properties[1].extensionName = "VK_KHR_surface"
    /\ properties[2] = Unwritten

\* ------------------------------------------------------------------------
\* Properties of the surface entry points (SpecSurface)
\* ------------------------------------------------------------------------
InCreateSurface == args.op = "vkCreateWin32SurfaceKHR"
InDestroySurface == args.op = "vkDestroySurfaceKHR"

\* C8: a create call for a window whose parent is not the desktop returns
\* VK_ERROR_INCOMPATIBLE_DRIVER and changes nothing: no client window, no
\* wrapper, no backend call, the caller's handle storage not written.
C8_ChildWindowRejected ==
    [][(/\ pc = "idle"
        /\ pc' = "returned"
        /\ args'.op = "vkCreateWin32SurfaceKHR"
        /\ GetAncestor(args'.hwnd) # GetDesktopWindow)
       => /\ res' = VK_ERROR_INCOMPATIBLE_DRIVER
          /\ heap' = heap
          /\ windows' = windows
          /\ natives' = natives
          /\ surface' = surface
          /\ handles' = handles
          /\ EventCount(trace', "create_client_window") = 0
          /\ EventCount(trace', "heap_alloc") = 0
          /\ EventCount(trace', "pvkCreateXlibSurfaceKHR") = 0
          /\ EventCount(trace', "write_surface") = 0]_vars

C8_Witness ==
    /\ pc = "returned"
    /\ InCreateSurface
    /\ args.hwnd = "child"
    /\ res = VK_ERROR_INCOMPATIBLE_DRIVER
    /\ handles # {}

\* blocks the current call obtained from heap_alloc
AllocatedByCall == {Allocs(trace)[i].arg : i \in 1..Len(Allocs(trace))} \ {NULL}

\* C9: when a create call returns, every wrapper it allocated is either
\* handed to the caller through *surface (VK_SUCCESS, with the client window
\* and the native surface) or freed; a backend failure is returned with the
\* caller's handle storage neither written nor freed; a destroy call has
\* destroyed the native surface once and freed the wrapper once.
C9_WrapperOwnership ==
    /\ (pc = "returned" /\ InCreateSurface) =>
        /\ \A b \in AllocatedByCall :
            \/ /\ res = VK_SUCCESS
               /\ surface = b
               /\ heap[b].live
               /\ heap[b].window \in windows
               /\ heap[b].surface \in natives
            \/ ~heap[b].live
        /\ (res # VK_SUCCESS /\ EventCount(trace, "pvkCreateXlibSurfaceKHR") = 1) =>
            /\ res \in BackendResults \cup {VK_ERROR_OUT_OF_HOST_MEMORY}
            /\ surface = args.surface_before
            /\ \A i \in 1..Len(Frees(trace)) :
                  Frees(trace)[i].arg # args.surface_ptr
    /\ (pc = "returned" /\ InDestroySurface) =>
        /\ ~heap[args.surface].live
        /\ args.native \notin natives
        /\ EventCount(trace, "pvkDestroySurfaceKHR") = 1
        /\ Frees(trace) = <<Ev("heap_free", args.surface)>>

\* ------------------------------------------------------------------------
\* Properties of get_vulkan_driver (SpecDriverSeq, SpecDriver)
\* ------------------------------------------------------------------------
AllResolved == \A k \in 1..NumSymbols : pvk[k] # NULL

\* C4: in any sequence of calls, a call returns the function table only if
\* the version matches and the library and all seven symbols were resolved at
\* first use; once the driver is unavailable every call returns null.
C4_TableOnlyWhenLoaded ==
    \A t \in Threads :
        tret[t] = "vulkan_funcs" =>
            /\ tver[t] = WINE_VULKAN_DRIVER_VERSION
            /\ lib.open
            /\ lib.syms = 1..NumSymbols
            /\ AllResolved

\* C5: when threads make the first calls concurrently, the loading code is
\* run by exactly one of them and no caller is handed the table before all
\* seven pointers are resolved.  Stated for the host whose library is
\* complete, where no caller has a reason to get null.
C5_ConcurrentFirstUse ==
    lib = CompleteLibrary =>
        /\ Cardinality({t \in Threads : tloaded[t]}) <= 1
        /\ \A t \in Threads : tret[t] = "vulkan_funcs" => AllResolved

====
